---- MODULE Spec2Model ----
(***************************************************************************)
(* Model of backend/main.py: the POST /api/analyze handler                 *)
(* (analyze_document) and its helper extract_metadata.                     *)
(*                                                                         *)
(* Each request is a coroutine; pc[r] is its position in analyze_document. *)
(* The filesystem is the set of temporary files, each remembered with the  *)
(* request that created it.  Collaborators (the extractors and analyzers   *)
(* of the analyzers package, the OS calls) either return or raise.         *)
(***************************************************************************)
EXTENDS Integers, Sequences, FiniteSets, TLC

\* ------------------------------------------------------------------ bounds
NumReq == 2
MaxPaths == 2

Reqs == 1..NumReq
Paths == 1..MaxPaths

\* --------------------------------------------------------------- constants
MAX_SIZE == 50 * 1024 * 1024

PDF_TYPE == "application/pdf"
DOCX_TYPE == "application/vnd.openxmlformats-officedocument.wordprocessingml.document"
MSWORD_TYPE == "application/msword"
NOT_AVAILABLE == "Not available for this file type"

\* Python's None, and the "nothing yet" values of the model's variables
None == "None"
NoFile == [filename |-> None, size |-> -1, content_type |-> None]
NoPath == 0
NoOwner == 0
NoPending == [kind |-> "none"]
NoResult == [kind |-> "none"]
NoMetadata == [k \in {} |-> None]
NoCall == [state |-> "none"]

\* ------------------------------------------------------------ pure helpers
\* mimetypes.guess_type(filename)[0], on the filenames of the model
guess_type(filename) ==
    CASE filename = "a.pdf" -> PDF_TYPE
      [] filename = "big.docx" -> DOCX_TYPE
      [] filename = "r.doc" -> MSWORD_TYPE
      [] filename = "note.txt" -> "text/plain"
      [] OTHER -> None

\* Python truthiness of an optional string: None and "" are falsy
Truthy(s) == s # None /\ s # ""

declared_typeNoGuess(upload) == upload.content_type
\* file.content_type or mimetypes.guess_type(file.filename)[0]
declared_type(upload) ==
    IF Truthy(upload.content_type) THEN upload.content_type
    ELSE guess_type(upload.filename)

\* the file_info dict built at the head of the inner try block
file_info_of(upload) ==
    [filename |-> upload.filename,
     size |-> upload.size,
     type |-> declared_type(upload),
     upload_time |-> "upload_time"]

\* if file_size > 50 * 1024 * 1024
TooLargeOff(file_size) == FALSE
TooLarge(file_size) == file_size > MAX_SIZE

\* {**a, **b}: the right operand wins on a key collision
DictMerge(a, b) ==
    [k \in (DOMAIN a) \cup (DOMAIN b) |-> IF k \in DOMAIN b THEN b[k] ELSE a[k]]

\* base_metadata of extract_metadata
base_metadata(file_info) ==
    [filename |-> file_info.filename,
     size |-> file_info.size,
     type |-> file_info.type,
     lastModified |-> file_info.upload_time]

\* which extractor extract_metadata awaits for a file type
WhichExtractorNoMsword(file_type) ==
    IF file_type = PDF_TYPE THEN "pdf"
    ELSE IF file_type \in {DOCX_TYPE} THEN "docx"
    ELSE "none"
WhichExtractor(file_type) ==
    IF file_type = PDF_TYPE THEN "pdf"
    ELSE IF file_type \in {DOCX_TYPE, MSWORD_TYPE} THEN "docx"
    ELSE "none"

\* the value extract_metadata returns; out is the mapping the awaited
\* extractor returned (unused in the else branch)
extract_metadata(file_info, out) ==
    IF WhichExtractor(file_info.type) = "pdf"
    THEN DictMerge(base_metadata(file_info), out)
    ELSE IF WhichExtractor(file_info.type) = "docx"
    THEN DictMerge(base_metadata(file_info), out)
    ELSE DictMerge(base_metadata(file_info),
                   [author |-> NOT_AVAILABLE,
                    createdDate |-> None,
                    modifiedDate |-> None])

\* exceptions
HTTPException(status_code, detail) ==
    [type |-> "HTTPException", status_code |-> status_code, detail |-> detail]
Fault(type, msg) == [type |-> type, msg |-> msg]

\* str(e), as a sequence of text pieces.  For HTTPException this is
\* Starlette's __str__, "<status_code>: <detail>".
Str(e) ==
    IF e.type = "HTTPException"
    THEN <<ToString(e.status_code), ": ", e.detail>>
    ELSE <<e.msg>>

\* the outer handler: except Exception as e: raise HTTPException(500, ...)
AnalysisFailed(e) ==
    [kind |-> "error", status |-> 500,
     detail |-> <<"Analysis failed: ">> \o Str(e)]

\* JSONResponse({...}) of the success path
Report(metadata) ==
    [kind |-> "response", status |-> 200,
     body |-> [success |-> TRUE,
               metadata |-> metadata,
               textAnalysis |-> "text_analysis",
               imageAnalysis |-> "image_analysis",
               signatureCheck |-> "signature_check",
               analysisTime |-> "now"]]

Cancelled == [kind |-> "cancelled"]

\* ------------------------------------------------------------------ inputs
Uploads ==
    { [filename |-> "", size |-> 0, content_type |-> None],
      [filename |-> "note.txt", size |-> 10, content_type |-> None],
      [filename |-> "a.pdf", size |-> MAX_SIZE, content_type |-> PDF_TYPE],
      [filename |-> "big.docx", size |-> MAX_SIZE + 1, content_type |-> ""] }

\* what an extractor of the analyzers package may return: a mapping
ExtractorKeys ==
    {"filename", "size", "type", "lastModified",
     "author", "createdDate", "modifiedDate", "producer"}
ExtractorValue(k) == IF k = "size" THEN -1 ELSE "extracted " \o k
ExtractorOutput(keys) == [k \in keys |-> ExtractorValue(k)]
ExtractorOutputs == { ExtractorOutput(keys) : keys \in SUBSET ExtractorKeys }
HandlerExtractorOutputs ==
    { ExtractorOutput({"author", "createdDate", "modifiedDate", "producer"}),
      ExtractorOutput({"size", "producer"}) }

\* ------------------------------------------------------------------- state
VARIABLES
    pc,              \* pc[r]: position of request r in analyze_document
    file,            \* file[r]: the UploadFile of request r
    temp_file,       \* temp_file[r]: temp_file.name of the NamedTemporaryFile
    temp_file_path,  \* temp_file_path[r]: the local of that name
    metadata,        \* metadata[r]: the local of that name
    pending,         \* pending[r]: how the inner try block was left
    result,          \* result[r]: what the caller of the handler got
    fs,              \* fs[p]: the request whose temporary file is at path p
    log,             \* log[r]: the calls request r made, in order
    call             \* a direct call of extract_metadata, with its outcome

vars == <<pc, file, temp_file, temp_file_path, metadata, pending, result, fs,
          log, call>>

exists(p) == fs[p] # NoOwner

Init ==
    /\ pc = [r \in Reqs |-> "idle"]
    /\ file = [r \in Reqs |-> NoFile]
    /\ temp_file = [r \in Reqs |-> NoPath]
    /\ temp_file_path = [r \in Reqs |-> NoPath]
    /\ metadata = [r \in Reqs |-> NoMetadata]
    /\ pending = [r \in Reqs |-> NoPending]
    /\ result = [r \in Reqs |-> NoResult]
    /\ fs = [p \in Paths |-> NoOwner]
    /\ log = [r \in Reqs |-> <<>>]
    /\ call = NoCall

\* the outer "except Exception as e" reached from outside the inner try
Raise500(r, e) ==
    /\ pc' = [pc EXCEPT ![r] = "done"]
    /\ result' = [result EXCEPT ![r] = AnalysisFailed(e)]

\* an exception or a cancellation inside the inner try: on to "finally"
LeaveTry(r, how) ==
    /\ pc' = [pc EXCEPT ![r] = "finally"]
    /\ pending' = [pending EXCEPT ![r] = how]

\* a request arrives
Receive(r) ==
    /\ pc[r] = "idle"
    /\ \E u \in Uploads : file' = [file EXCEPT ![r] = u]
    /\ pc' = [pc EXCEPT ![r] = "check_filename"]
    /\ UNCHANGED <<temp_file, temp_file_path, metadata, pending, result, fs, log, call>>

\* if not file.filename: raise HTTPException(400, "No file provided")
CheckFilename(r) ==
    /\ pc[r] = "check_filename"
    /\ IF ~Truthy(file[r].filename)
       THEN Raise500(r, HTTPException(400, "No file provided"))
       ELSE pc' = [pc EXCEPT ![r] = "read"] /\ UNCHANGED result
    /\ UNCHANGED <<file, temp_file, temp_file_path, metadata, pending, fs, log, call>>

\* content = await file.read(); the size check
ReadAndCheckSize(r) ==
    /\ pc[r] = "read"
    /\ IF TooLarge(file[r].size)
       THEN Raise500(r, HTTPException(400, "File too large (max 50MB)"))
       ELSE pc' = [pc EXCEPT ![r] = "seek"] /\ UNCHANGED result
    /\ UNCHANGED <<file, temp_file, temp_file_path, metadata, pending, fs, log, call>>

\* await file.seek(0)
Seek(r) ==
    /\ pc[r] = "seek"
    /\ pc' = [pc EXCEPT ![r] = "create"]
    /\ UNCHANGED <<file, temp_file, temp_file_path, metadata, pending, result, fs, log, call>>

\* tempfile.NamedTemporaryFile(delete=False, ...): a name no file has yet,
\* FileExistsError when no such name is left
FreePaths == { p \in Paths : ~exists(p) }

\* the name chosen; names differ only in their random part, so the model
\* takes the first free one
NewName == CHOOSE p \in FreePaths : \A q \in FreePaths : p <= q

CreateTempFile(r) ==
    /\ pc[r] = "create"
    /\ IF FreePaths = {}
       THEN /\ Raise500(r, Fault("FileExistsError", "No usable temporary file name found"))
            /\ UNCHANGED <<temp_file, fs, log>>
       ELSE /\ fs' = [fs EXCEPT ![NewName] = r]
            /\ temp_file' = [temp_file EXCEPT ![r] = NewName]
            /\ log' = [log EXCEPT ![r] = Append(@, "create")]
            /\ pc' = [pc EXCEPT ![r] = "copy"]
            /\ UNCHANGED result
    /\ UNCHANGED <<file, temp_file_path, metadata, pending, call>>

\* shutil.copyfileobj(file.file, temp_file); temp_file_path = temp_file.name
\* The copy is outside the inner try: when it raises, control goes to the
\* outer except and the file, created with delete=False, stays.
CopyUpload(r) ==
    /\ pc[r] = "copy"
    /\ \/ /\ temp_file_path' = [temp_file_path EXCEPT ![r] = temp_file[r]]
          /\ pc' = [pc EXCEPT ![r] = "extract"]
          /\ UNCHANGED result
       \/ /\ Raise500(r, Fault("OSError", "No space left on device"))
          /\ UNCHANGED temp_file_path
    /\ UNCHANGED <<file, temp_file, metadata, pending, fs, log, call>>

\* the awaits of the inner try block
AwaitsInTry == {"extract", "text", "image", "signature"}

\* the collaborator awaited at a position of the inner try ("none": the
\* else branch of extract_metadata awaits nothing)
Awaited(r) ==
    IF pc[r] = "extract"
    THEN WhichExtractor(file_info_of(file[r]).type)
    ELSE pc[r]

Invoke(r) ==
    IF Awaited(r) = "none" THEN log[r] ELSE Append(log[r], Awaited(r))

\* metadata = await extract_metadata(temp_file_path, file_info, ...)
ExtractMetadata(r) ==
    /\ pc[r] = "extract"
    /\ log' = [log EXCEPT ![r] = Invoke(r)]
    /\ IF Awaited(r) = "none"
       THEN /\ metadata' = [metadata EXCEPT ![r] =
                                extract_metadata(file_info_of(file[r]), NoMetadata)]
            /\ pc' = [pc EXCEPT ![r] = "text"]
            /\ UNCHANGED pending
       ELSE \/ /\ \E out \in HandlerExtractorOutputs :
                      metadata' = [metadata EXCEPT ![r] =
                                      extract_metadata(file_info_of(file[r]), out)]
               /\ pc' = [pc EXCEPT ![r] = "text"]
               /\ UNCHANGED pending
            \/ /\ LeaveTry(r, [kind |-> "raise",
                               exc |-> Fault("Exception", "extractor fault")])
               /\ UNCHANGED metadata
    /\ UNCHANGED <<file, temp_file, temp_file_path, result, fs, call>>

\* text_analysis / image_analysis / signature_check =
\*     await <analyzer>.analyze(temp_file_path, file_info)
NextStepSwapped(step) ==
    CASE step = "text" -> "signature"
      [] step = "signature" -> "image"
      [] step = "image" -> "assemble"
NextStepSkipsSignature(step) ==
    CASE step = "text" -> "image"
      [] step = "image" -> "assemble"
      [] step = "signature" -> "assemble"
NextStep(step) ==
    CASE step = "text" -> "image"
      [] step = "image" -> "signature"
      [] step = "signature" -> "assemble"

AnalyzeCleansUpAndContinues(r) ==
    /\ pc[r] \in {"text", "image", "signature"}
    /\ pc' = [pc EXCEPT ![r] = NextStep(pc[r])]
    /\ \/ /\ log' = [log EXCEPT ![r] = Invoke(r)]
          /\ UNCHANGED fs
       \/ /\ log' = [log EXCEPT ![r] = Append(Invoke(r), "unlink")]
          /\ fs' = [fs EXCEPT ![temp_file_path[r]] = NoOwner]
    /\ UNCHANGED <<file, temp_file, temp_file_path, metadata, pending, result, call>>
Analyze(r) ==
    /\ pc[r] \in {"text", "image", "signature"}
    /\ log' = [log EXCEPT ![r] = Invoke(r)]
    /\ \/ /\ pc' = [pc EXCEPT ![r] = NextStep(pc[r])]
          /\ UNCHANGED pending
       \/ LeaveTry(r, [kind |-> "raise",
                       exc |-> Fault("Exception", pc[r] \o " analyzer fault")])
    /\ UNCHANGED <<file, temp_file, temp_file_path, metadata, result, fs, call>>

\* return JSONResponse({...}): the value is built, then finally runs
Assemble(r) ==
    /\ pc[r] = "assemble"
    /\ LeaveTry(r, [kind |-> "return", value |-> Report(metadata[r])])
    /\ UNCHANGED <<file, temp_file, temp_file_path, metadata, result, fs, log, call>>

\* the request is aborted: asyncio throws CancelledError into the coroutine
\* at the await it is suspended on.  CancelledError is a BaseException.
CancelSkipsFinally(r) ==
    /\ pc[r] \in {"read", "seek"} \cup AwaitsInTry
    /\ Awaited(r) # "none"
    /\ pc' = [pc EXCEPT ![r] = "done"]
    /\ result' = [result EXCEPT ![r] = Cancelled]
    /\ IF pc[r] \in AwaitsInTry
       THEN /\ log' = [log EXCEPT ![r] = Invoke(r)]
            /\ pending' = [pending EXCEPT ![r] = [kind |-> "cancel"]]
       ELSE UNCHANGED <<pending, log>>
    /\ UNCHANGED <<file, temp_file, temp_file_path, metadata, fs, call>>
Cancel(r) ==
    /\ pc[r] \in {"read", "seek"} \cup AwaitsInTry
    /\ Awaited(r) # "none"
    /\ IF pc[r] \in AwaitsInTry
       THEN /\ log' = [log EXCEPT ![r] = Invoke(r)]
            /\ LeaveTry(r, [kind |-> "cancel"])
            /\ UNCHANGED result
       ELSE /\ pc' = [pc EXCEPT ![r] = "done"]
            /\ result' = [result EXCEPT ![r] = Cancelled]
            /\ UNCHANGED <<pending, log>>
    /\ UNCHANGED <<file, temp_file, temp_file_path, metadata, fs, call>>

\* what leaves the finally block: a return value goes to the caller, an
\* Exception is caught by the outer except, CancelledError passes through
Outcome(how) ==
    CASE how.kind = "return" -> how.value
      [] how.kind = "raise" -> AnalysisFailed(how.exc)
      [] how.kind = "cancel" -> Cancelled

FinallyUnguarded(r) ==
    /\ pc[r] = "finally"
    /\ pc' = [pc EXCEPT ![r] = "done"]
    /\ \/ /\ exists(temp_file_path[r])
          /\ fs' = [fs EXCEPT ![temp_file_path[r]] = NoOwner]
          /\ log' = [log EXCEPT ![r] = Append(@, "unlink")]
          /\ result' = [result EXCEPT ![r] = Outcome(pending[r])]
       \/ /\ log' = [log EXCEPT ![r] = Append(@, "unlink failed")]
          /\ result' = [result EXCEPT ![r] =
                Outcome([kind |-> "raise",
                         exc |-> Fault("OSError", "No such file or directory")])]
          /\ UNCHANGED fs
    /\ UNCHANGED <<file, temp_file, temp_file_path, metadata, pending, call>>
\* finally: if os.path.exists(temp_file_path): os.unlink(temp_file_path)
\* An OSError raised by os.unlink replaces whatever the try block was
\* leaving with (pending[r]) and is caught by the outer except.
Finally(r) ==
    /\ pc[r] = "finally"
    /\ pc' = [pc EXCEPT ![r] = "done"]
    /\ IF ~exists(temp_file_path[r])
       THEN /\ result' = [result EXCEPT ![r] = Outcome(pending[r])]
            /\ UNCHANGED <<fs, log>>
       ELSE \/ /\ fs' = [fs EXCEPT ![temp_file_path[r]] = NoOwner]
               /\ log' = [log EXCEPT ![r] = Append(@, "unlink")]
               /\ result' = [result EXCEPT ![r] = Outcome(pending[r])]
            \/ /\ log' = [log EXCEPT ![r] = Append(@, "unlink failed")]
               /\ result' = [result EXCEPT ![r] =
                     Outcome([kind |-> "raise",
                              exc |-> Fault("OSError", "Permission denied")])]
               /\ UNCHANGED fs
    /\ UNCHANGED <<file, temp_file, temp_file_path, metadata, pending, call>>

Next ==
    \/ \E r \in Reqs : Receive(r)
    \/ \E r \in Reqs : CheckFilename(r)
    \/ \E r \in Reqs : ReadAndCheckSize(r)
    \/ \E r \in Reqs : Seek(r)
    \/ \E r \in Reqs : CreateTempFile(r)
    \/ \E r \in Reqs : CopyUpload(r)
    \/ \E r \in Reqs : ExtractMetadata(r)
    \/ \E r \in Reqs : Analyze(r)
    \/ \E r \in Reqs : Assemble(r)
    \/ \E r \in Reqs : Cancel(r)
    \/ \E r \in Reqs : Finally(r)

Spec == Init /\ [][Next]_vars

\* ------------------------------------------- extract_metadata on its own
\* The file types and extractor outputs a direct call is made with.
FileTypes ==
    {PDF_TYPE, DOCX_TYPE, MSWORD_TYPE, "text/plain", "application/PDF", None}

FileInfos ==
    { [filename |-> "doc", size |-> 10, type |-> t, upload_time |-> "upload_time"] :
        t \in FileTypes }

MetaInit ==
    /\ pc = [r \in Reqs |-> "idle"]
    /\ file = [r \in Reqs |-> NoFile]
    /\ temp_file = [r \in Reqs |-> NoPath]
    /\ temp_file_path = [r \in Reqs |-> NoPath]
    /\ metadata = [r \in Reqs |-> NoMetadata]
    /\ pending = [r \in Reqs |-> NoPending]
    /\ result = [r \in Reqs |-> NoResult]
    /\ fs = [p \in Paths |-> NoOwner]
    /\ log = [r \in Reqs |-> <<>>]
    /\ \E fi \in FileInfos, out \in ExtractorOutputs :
          call = [state |-> "called", file_info |-> fi, out |-> out]

\* await extract_metadata(file_path, file_info, pdf_analyzer, docx_analyzer)
\* where the awaited extractor returns call.out
CallExtractMetadata ==
    /\ call.state = "called"
    /\ call' = [state |-> "returned",
                file_info |-> call.file_info,
                out |-> call.out,
                invoked |-> WhichExtractor(call.file_info.type),
                value |-> extract_metadata(call.file_info, call.out)]
    /\ UNCHANGED <<pc, file, temp_file, temp_file_path, metadata, pending,
                   result, fs, log>>

MetaNext == CallExtractMetadata

SpecMeta == MetaInit /\ [][MetaNext]_vars

\* ------------------------------------------------------------ properties
Range(seq) == { seq[i] : i \in DOMAIN seq }
Contains(detail, text) == text \in Range(detail)
LastCall(r) == IF log[r] = <<>> THEN "" ELSE log[r][Len(log[r])]

\* the temporary file request r created is on the filesystem
OwnFileExists(r) == temp_file[r] # NoPath /\ fs[temp_file[r]] = r

EmptyName(r) == file[r] # NoFile /\ file[r].filename = ""
OverSize(r) == file[r] # NoFile /\ file[r].size > MAX_SIZE

\* C1: once a run of analyze_document has returned (success or error), the
\* temporary file it created does not exist.
C1_CleanupInvariant ==
    \A r \in Reqs : pc[r] = "done" => ~OwnFileExists(r)

\* C2: a request with an empty filename or a content longer than 50 MiB
\* never has a temporary file: none is created for it, at any point of the
\* run or after it, and the run does not end in a success response.
C2_ValidationBeforeCreate ==
    \A r \in Reqs :
        (EmptyName(r) \/ OverSize(r)) =>
            /\ temp_file[r] = NoPath
            /\ temp_file_path[r] = NoPath
            /\ \A p \in Paths : fs[p] # r
            /\ ~Contains(log[r], "create")
            /\ pc[r] = "done" => result[r].kind \in {"error", "cancelled"}

C2_Witness ==
    \E r1, r2 \in Reqs :
        /\ EmptyName(r1) /\ pc[r1] = "done" /\ result[r1].kind = "error"
        /\ OverSize(r2) /\ pc[r2] = "done" /\ result[r2].kind = "error"

\* C3: a request rejected by input validation is answered with status 400
\* and the detail of its check ("No file provided", "File too large");
\* status 500 is used only when an extractor or analyzer raised.
C3_ValidationIs400 ==
    \A r \in Reqs :
        (pc[r] = "done" /\ result[r].kind = "error") =>
            /\ EmptyName(r) =>
                  /\ result[r].status = 400
                  /\ Contains(result[r].detail, "No file provided")
            /\ (~EmptyName(r) /\ OverSize(r)) =>
                  /\ result[r].status = 400
                  /\ Contains(result[r].detail, "File too large (max 50MB)")
            /\ result[r].status = 500 => pending[r].kind = "raise"

\* C4: when the extractor or an analyzer raised, the request ends with one
\* error of status 500 whose detail carries the text of that fault, and
\* with no Report.
C4_AllOrNothing ==
    \A r \in Reqs :
        (pc[r] = "done" /\ pending[r].kind = "raise") =>
            /\ result[r].kind = "error"
            /\ result[r].status = 500
            /\ Contains(result[r].detail, pending[r].exc.msg)

\* C5: a failing deletion of the temporary file does not change what the
\* caller gets: the Report when the analyses succeeded, the error of the
\* analysis fault when one of them raised.
C5_CleanupFailureNotEscalated ==
    \A r \in Reqs :
        (pc[r] = "done" /\ LastCall(r) = "unlink failed") =>
            /\ pending[r].kind = "return" => result[r] = pending[r].value
            /\ pending[r].kind = "raise" =>
                  /\ result[r].kind = "error"
                  /\ Contains(result[r].detail, pending[r].exc.msg)

BaseKeys == {"filename", "size", "type", "lastModified"}
SemanticKeys == {"author", "createdDate", "modifiedDate"}

\* C7: for "application/pdf" exactly the PDF extractor is invoked and its
\* output is in the metadata; for the two Word types exactly the DOCX
\* extractor; for any other type, or none, no extractor is invoked and the
\* metadata holds the placeholder author and null dates.
C7_DispatchByType ==
    call.state = "returned" =>
        LET t == call.file_info.type
            v == call.value
        IN  /\ t = "application/pdf" => call.invoked = "pdf"
            /\ t \in {"application/vnd.openxmlformats-officedocument.wordprocessingml.document",
                      "application/msword"} => call.invoked = "docx"
            /\ call.invoked \in {"pdf", "docx"} =>
                  /\ t \in {PDF_TYPE, DOCX_TYPE, MSWORD_TYPE}
                  /\ \A k \in DOMAIN call.out : k \in DOMAIN v /\ v[k] = call.out[k]
            /\ t \notin {PDF_TYPE, DOCX_TYPE, MSWORD_TYPE} =>
                  /\ call.invoked = "none"
                  /\ v["author"] = "Not available for this file type"
                  /\ v["createdDate"] = None
                  /\ v["modifiedDate"] = None

C7_Witness ==
    /\ call.state = "returned"
    /\ call.file_info.type = MSWORD_TYPE
    /\ call.invoked = "docx"
    /\ "producer" \in DOMAIN call.out
    /\ call.value["producer"] = call.out["producer"]

\* C8: for the PDF and DOCX variants, a base key (filename, size, type,
\* lastModified) that the extractor's output also contains keeps the value
\* derived from the file-info.
C8_BaseFieldsWin ==
    (call.state = "returned" /\ call.invoked \in {"pdf", "docx"}) =>
        \A k \in BaseKeys \cap DOMAIN call.out :
            call.value[k] = base_metadata(call.file_info)[k]

\* C9: for every type and every extractor output, the returned metadata
\* has the keys author, createdDate, modifiedDate, filename, size, type and
\* lastModified.
C9_SemanticKeysPresent ==
    call.state = "returned" =>
        (BaseKeys \cup SemanticKeys) \subseteq DOMAIN call.value

\* C10: every request between the creation of its temporary file and its
\* cleanup owns exactly one temporary file, at a path no other request
\* uses; a request never has more than one; the path a request is about to
\* clean up holds its own file; a finished request owns none.
InFlightWithFile(r) ==
    pc[r] \in {"copy", "extract", "text", "image", "signature", "assemble", "finally"}

C10_OneFilePerRequest ==
    /\ \A r \in Reqs :
          /\ Cardinality({ p \in Paths : fs[p] = r }) <= 1
          /\ InFlightWithFile(r) => OwnFileExists(r)
          /\ (InFlightWithFile(r) /\ pc[r] # "copy") => fs[temp_file_path[r]] = r
          /\ pc[r] = "done" => \A p \in Paths : fs[p] # r
    /\ \A r1, r2 \in Reqs :
          (r1 # r2 /\ InFlightWithFile(r1) /\ InFlightWithFile(r2)) =>
              temp_file[r1] # temp_file[r2]

TypeOK ==
    /\ \A r \in Reqs : temp_file_path[r] \in Paths \cup {NoPath}
    /\ \A p \in Paths : fs[p] \in Reqs \cup {NoOwner}

\* the extractor and analyzer calls of request r, in the order made
AnalysisCalls(r) ==
    SelectSeq(log[r], LAMBDA e : e \in {"pdf", "docx", "text", "image", "signature"})

ReportSections ==
    {"success", "metadata", "textAnalysis", "imageAnalysis", "signatureCheck",
     "analysisTime"}

CompleteReport(r, resp) ==
    /\ metadata[r] # NoMetadata
    /\ \A a \in {"text", "image", "signature"} : Contains(AnalysisCalls(r), a)
    /\ DOMAIN resp.body = ReportSections
    /\ resp.body.success = TRUE
    /\ resp.body.metadata = metadata[r]

\* C11: a success response, whether still pending behind the cleanup or
\* already returned, exists only after the metadata extraction and the
\* Text, Image and Signature analyzers have all completed, and it holds
\* every section: metadata, textAnalysis, imageAnalysis, signatureCheck,
\* success = true and analysisTime.
C11_AssembledAfterAll ==
    \A r \in Reqs :
        /\ pending[r].kind = "return" => CompleteReport(r, pending[r].value)
        /\ result[r].kind = "response" => CompleteReport(r, result[r])

C11_Witness ==
    \E r \in Reqs :
        /\ pc[r] = "done" /\ result[r].kind = "response"
        /\ result[r].status = 200
        /\ Len(AnalysisCalls(r)) = 4

ValidUpload(r) ==
    file[r] # NoFile /\ file[r].filename # "" /\ file[r].size <= MAX_SIZE

RejectedForSize(r) ==
    result[r].kind = "error" /\ Contains(result[r].detail, "File too large (max 50MB)")

\* C12: an upload with a non-empty filename and at most 50 MiB of content
\* (50 MiB exactly included) is never rejected for its size, and the size in
\* its metadata, pending or returned, is the byte length of the content; a
\* rejection for size happens only above 50 MiB.
C12_SizeExact ==
    \A r \in Reqs :
        /\ ValidUpload(r) =>
              /\ ~RejectedForSize(r)
              /\ metadata[r] # NoMetadata => metadata[r]["size"] = file[r].size
              /\ result[r].kind = "response" =>
                    result[r].body.metadata["size"] = file[r].size
        /\ RejectedForSize(r) => file[r].size > MAX_SIZE

\* --------------------------------------------------- one request on its own
\* One request handled while every other request has already been rejected
\* for its empty filename, over a wider set of uploads, and with a
\* collaborator that may remove the temporary file while it is awaited.
MoreUploads ==
    Uploads \cup
    { [filename |-> "README", size |-> 10, content_type |-> None],
      [filename |-> "note.txt", size |-> 10, content_type |-> ""],
      [filename |-> "a.pdf", size |-> 10, content_type |-> "text/plain"],
      [filename |-> "r.doc", size |-> 10, content_type |-> None] }

RejectedUpload == [filename |-> "", size |-> 0, content_type |-> None]

SingleInit ==
    /\ pc = [r \in Reqs |-> IF r = 1 THEN "idle" ELSE "done"]
    /\ file = [r \in Reqs |-> IF r = 1 THEN NoFile ELSE RejectedUpload]
    /\ temp_file = [r \in Reqs |-> NoPath]
    /\ temp_file_path = [r \in Reqs |-> NoPath]
    /\ metadata = [r \in Reqs |-> NoMetadata]
    /\ pending = [r \in Reqs |-> NoPending]
    /\ result = [r \in Reqs |->
                   IF r = 1 THEN NoResult
                   ELSE AnalysisFailed(HTTPException(400, "No file provided"))]
    /\ fs = [p \in Paths |-> NoOwner]
    /\ log = [r \in Reqs |-> <<>>]
    /\ call = NoCall

ReceiveAny(r) ==
    /\ pc[r] = "idle"
    /\ \E u \in MoreUploads : file' = [file EXCEPT ![r] = u]
    /\ pc' = [pc EXCEPT ![r] = "check_filename"]
    /\ UNCHANGED <<temp_file, temp_file_path, metadata, pending, result, fs, log, call>>

\* the extractor or analyzer being awaited deletes the file at the path it
\* was given
CollaboratorRemoves(r) ==
    /\ pc[r] \in AwaitsInTry
    /\ Awaited(r) # "none"
    /\ exists(temp_file_path[r])
    /\ fs' = [fs EXCEPT ![temp_file_path[r]] = NoOwner]
    /\ UNCHANGED <<pc, file, temp_file, temp_file_path, metadata, pending,
                   result, log, call>>

NextSingle ==
    \/ \E r \in Reqs : ReceiveAny(r)
    \/ \E r \in Reqs : CheckFilename(r)
    \/ \E r \in Reqs : ReadAndCheckSize(r)
    \/ \E r \in Reqs : Seek(r)
    \/ \E r \in Reqs : CreateTempFile(r)
    \/ \E r \in Reqs : CopyUpload(r)
    \/ \E r \in Reqs : ExtractMetadata(r)
    \/ \E r \in Reqs : Analyze(r)
    \/ \E r \in Reqs : Assemble(r)
    \/ \E r \in Reqs : Cancel(r)
    \/ \E r \in Reqs : Finally(r)
    \/ \E r \in Reqs : CollaboratorRemoves(r)

SpecSingle == SingleInit /\ [][NextSingle]_vars

TypeSupplied(r) == file[r].content_type \notin {None, ""}

ExpectedType(r) ==
    IF TypeSupplied(r) THEN file[r].content_type ELSE guess_type(file[r].filename)

\* C13: the type of the file-info, as the metadata shows it, is the MIME
\* type the caller supplied when there is one and otherwise the type guessed
\* from the filename; with no supplied type and none guessed the type is
\* absent, the run goes on past the metadata step and the metadata is the
\* Generic placeholder.
C13_DeclaredType ==
    \A r \in Reqs :
        /\ metadata[r] # NoMetadata => metadata[r]["type"] = ExpectedType(r)
        /\ ( /\ file[r] # NoFile
             /\ ExpectedType(r) = None
             /\ temp_file_path[r] # NoPath
             /\ pc[r] # "extract" ) =>
                /\ metadata[r] # NoMetadata
                /\ metadata[r]["type"] = None
                /\ metadata[r]["author"] = "Not available for this file type"
                /\ metadata[r]["createdDate"] = None
                /\ metadata[r]["modifiedDate"] = None

C13_Witness ==
    \E r \in Reqs :
        /\ file[r].filename = "README" /\ ~TypeSupplied(r)
        /\ pc[r] = "done" /\ result[r].kind = "response"
        /\ result[r].body.success = TRUE
        /\ result[r].body.metadata["type"] = None
        /\ result[r].body.metadata["author"] = NOT_AVAILABLE

IsPrefix(s, t) ==
    Len(s) <= Len(t) /\ \A i \in 1..Len(s) : s[i] = t[i]

\* the calls a request with this upload makes when nothing raises
ExpectedCalls(r) ==
    (IF ExpectedType(r) = "application/pdf" THEN <<"pdf">>
     ELSE IF ExpectedType(r) \in
               {"application/vnd.openxmlformats-officedocument.wordprocessingml.document",
                "application/msword"} THEN <<"docx">>
     ELSE <<>>) \o <<"text", "image", "signature">>

FaultText(step) ==
    IF step \in {"pdf", "docx"} THEN "extractor fault" ELSE step \o " analyzer fault"

\* C14: the calls of a request are an initial part of: extractor, text,
\* image, signature, so each is made at most once, in this order, and the
\* analyzers only once the metadata is there; when one of them raised it
\* is the last one called and the request is at, or past, its cleanup.
C14_StepsInOrder ==
    \A r \in Reqs :
        /\ IsPrefix(AnalysisCalls(r), ExpectedCalls(r))
        /\ Contains(AnalysisCalls(r), "text") => metadata[r] # NoMetadata
        /\ pending[r].kind = "raise" =>
              /\ pc[r] \in {"finally", "done"}
              /\ AnalysisCalls(r) # <<>>
              /\ pending[r].exc.msg =
                    FaultText(AnalysisCalls(r)[Len(AnalysisCalls(r))])

C14_Witness ==
    \E r \in Reqs :
        /\ pc[r] = "done"
        /\ pending[r].kind = "raise"
        /\ pending[r].exc.msg = "image analyzer fault"
        /\ AnalysisCalls(r) = <<"pdf", "text", "image">>

\* the deletions request r attempted
Unlinks(r) == SelectSeq(log[r], LAMBDA e : e \in {"unlink", "unlink failed"})

\* C15: a request deletes its temporary file at most once, only after it
\* created the file and after its last extractor or analyzer call, and
\* calls no extractor or analyzer after the deletion: in its log "create"
\* comes first, a deletion comes last, and the handler is then finished.
C15_ReleaseOnceAndLast ==
    \A r \in Reqs :
        /\ Len(Unlinks(r)) <= 1
        /\ Len(Unlinks(r)) = 1 =>
              /\ log[r][1] = "create"
              /\ LastCall(r) \in {"unlink", "unlink failed"}
              /\ pc[r] = "done"
        /\ (LastCall(r) = "unlink" /\ Len(Unlinks(r)) = 1) => ~OwnFileExists(r)

C15_Witness ==
    \E r \in Reqs :
        /\ pc[r] = "done" /\ result[r].kind = "response"
        /\ log[r] = <<"create", "text", "image", "signature", "unlink">>

\* what the caller gets when the cleanup neither fails nor is needed
PrimaryOutcome(r) ==
    CASE pending[r].kind = "return" -> pending[r].value
      [] pending[r].kind = "raise" ->
            [kind |-> "error", status |-> 500,
             detail |-> <<"Analysis failed: ", pending[r].exc.msg>>]
      [] pending[r].kind = "cancel" -> [kind |-> "cancelled"]

\* C16: when the temporary file is already absent as the cleanup step runs,
\* the step deletes nothing and raises nothing, and the caller gets the
\* Report or the analysis error just as after a cleanup that deleted the
\* file.
C16_AbsentFileTolerated ==
    [][\A r \in Reqs :
          ( /\ pc[r] = "finally"
            /\ ~exists(temp_file_path[r])
            /\ pc'[r] = "done" ) =>
               /\ fs' = fs
               /\ log'[r] = log[r]
               /\ result'[r] = PrimaryOutcome(r)]_vars

C16_Witness ==
    \E r \in Reqs :
        /\ pc[r] = "done" /\ result[r].kind = "response"
        /\ Contains(log[r], "create")
        /\ Unlinks(r) = <<>>
        /\ ~exists(temp_file_path[r])
====
